---- MODULE Spec2Model ----
(***************************************************************************)
(* The pattern-matching virtual machine of src/lpvm.c (function match and  *)
(* its helpers): one action per opcode of the dispatch loop, the capture   *)
(* array, the backtrack/call stack, the capture-side stack and the         *)
(* left-recursion memo table ("lambda").                                   *)
(*                                                                         *)
(* Pointers are byte offsets from the subject origin o (so o = 0 and       *)
(* e = Len(subj)); instruction pointers are word offsets from op.          *)
(***************************************************************************)
EXTENDS Integers, Sequences, FiniteSets, TLC

VARIABLES
  prog,      \* name of the compiled program being run (op)
  subj,      \* the subject bytes o .. e-1
  start,     \* initial cursor passed to match
  p,         \* current instruction (word offset from op)
  s,         \* cursor (byte offset from o)
  stack,     \* backtrack/call stack, stack[1] is the sentinel frame
  stacksize, \* number of frames the stack array can hold (stacklimit - base)
  maxstack,  \* the maximum stack size kept in the registry (MAXSTACKIDX)
  capture,   \* capture array in use (all capsize slots)
  captop,    \* first empty slot of capture
  capsize,   \* size of the capture array in use
  ndyncap,   \* number of dynamic captures (values in the Lua stack)
  dynbase,   \* Lua stack index of the slot below the first dynamic value
  dyn,       \* the dynamic-capture values lying on the Lua stack
  capstack,  \* capture-side stack: CaptureStack records + caplists/dyncaplist
  alias,     \* TRUE iff capture is the very array stored in caplists[capstacktop]
  lambda,    \* memo table: integer key -> entry
  status,    \* "run", "ok" (IEnd returned s), "fail" (IGiveup), "error", "ub"
  ev,        \* the branch of the loop taken by the last step
  lrlog      \* seeds recorded by the left-recursive invocation that ended last

vars == <<prog, subj, start, p, s, stack, stacksize, maxstack, capture,
          captop, capsize, ndyncap, dynbase, dyn, capstack, alias, lambda, status, ev,
          lrlog>>

-----------------------------------------------------------------------------
(* Bounds of the model *)

MaxLen == 5        \* longest subject of the left-recursive programs
MaxShort == 3      \* longest subject of the other programs
MaxExtra == 1      \* most extra values a match-time capture returns
MaxStart == 1      \* largest initial cursor passed to match
MaxStackIdx == 4   \* largest maximum stack size tried (SpecStack)
MaxStackLen == 3   \* longest subject run under a small maximum (SpecStack)
MaxUtfTail == 3    \* most bytes after the first in the subjects of IUTFR

(* size of the initial stack array; the program's value is MAXBACK, the     *)
(* model runs on a smaller one so that doublestack is reached               *)
INITBACK == 2

(* size of a new capture array; the program's value is 32, the model runs   *)
(* on a smaller one so that growcap is reached by its short runs            *)
INITCAPSIZE == 4

(* Program constants.  NULLP stands for the NULL pointer and giveup for the *)
(* address of the giveup instruction, which lies outside the program.       *)

LRFAIL == -1
NULLP == -2
MAXBACK == 400
CHARSETINSTSIZE == 9
MAXNEWSIZE == 2147483647
INT_MAX == 2147483647
SHRT_MAX == 32767
UCHAR_MAX == 255
giveup == -3

-----------------------------------------------------------------------------
(* Instructions *)

Ins(c, a, k, t, b) == [code |-> c, aux |-> a, key |-> k, tgt |-> t, buff |-> b]

opAny == Ins("IAny", 0, 0, 0, {})
opChar(c) == Ins("IChar", c, 0, 0, {})
opSet(b) == Ins("ISet", 0, 0, 0, b)
opSpan(b) == Ins("ISpan", 0, 0, 0, b)
opTestAny(t) == Ins("ITestAny", 0, 0, t, {})
opTestChar(c, t) == Ins("ITestChar", c, 0, t, {})
opTestSet(b, t) == Ins("ITestSet", 0, 0, t, b)
opUTFR(lo, hi) == Ins("IUTFR", hi % 256, hi \div 256, lo, {})
opBehind(n) == Ins("IBehind", n, 0, 0, {})
opRet == Ins("IRet", 0, 0, 0, {})
opEnd == Ins("IEnd", 0, 0, 0, {})
opChoice(t) == Ins("IChoice", 0, 0, t, {})
opJmp(t) == Ins("IJmp", 0, 0, t, {})
opCall(t, k) == Ins("ICall", k, 0, t, {})
opCommit(t) == Ins("ICommit", 0, 0, t, {})
opPartialCommit(t) == Ins("IPartialCommit", 0, 0, t, {})
opBackCommit(t) == Ins("IBackCommit", 0, 0, t, {})
opFailTwice == Ins("IFailTwice", 0, 0, 0, {})
opFail == Ins("IFail", 0, 0, 0, {})
opGiveup == Ins("IGiveup", 0, 0, 0, {})
opOpenCapture(kind, k) == Ins("IOpenCapture", kind, k, 0, {})
opCloseCapture == Ins("ICloseCapture", "Cclose", 0, 0, {})
opFullCapture(kind, off, k) == Ins("IFullCapture", kind, k, off, {})
opCloseRunTime == Ins("ICloseRunTime", "Cclose", 0, 0, {})

(* number of instruction words an instruction occupies: the amount by which *)
(* its case of the loop advances p                                          *)
sizei(i) ==
  CASE i.code \in {"ISet", "ISpan"} -> CHARSETINSTSIZE
    [] i.code = "ITestSet" -> 1 + CHARSETINSTSIZE
    [] i.code \in {"ITestAny", "ITestChar", "IUTFR", "IChoice", "IJmp", "ICall",
                   "ICommit", "IPartialCommit", "IBackCommit"} -> 2
    [] OTHER -> 1

RECURSIVE AddrOf(_, _)
AddrOf(src, i) == IF i <= 1 THEN 0 ELSE AddrOf(src, i - 1) + sizei(src[i - 1])

(* the program as laid out in memory: word offset -> instruction, the jump  *)
(* targets turned into offsets relative to the instruction itself           *)
Code(src) ==
  [a \in {AddrOf(src, i) : i \in 1..Len(src)} |->
     LET i == CHOOSE j \in 1..Len(src) : AddrOf(src, j) = a
     IN  [code |-> src[i].code, aux |-> src[i].aux, key |-> src[i].key,
          buff |-> src[i].buff,
          offset |-> IF src[i].code \in {"IFullCapture", "IUTFR"} THEN src[i].tgt
                     ELSE IF src[i].tgt = 0 THEN 0
                     ELSE AddrOf(src, src[i].tgt) - a]]

-----------------------------------------------------------------------------
(* The programs run by the model, in symbolic assembly (a jump target is    *)
(* the index of an instruction of the list).  Bytes: 'a' 97, 'b' 98,        *)
(* 'c' 99, 'x' 120, 'y' 121, '+' 43, '1' 49, '2' 50, '3' 51,                *)
(* 0xC3 0xA9 = U+00E9.                                                      *)

Digits == {49, 50, 51}

Source ==
  [ lit  |-> << opChar(97), opChar(98), opEnd >>,
    ord  |-> << opChoice(4), opChar(97), opCommit(5), opChar(98), opEnd >>,
    star |-> << opChoice(4), opChar(120), opPartialCommit(1), opEnd >>,
    \* the same loop with PartialCommit jumping back to the Char
    star2 |-> << opChoice(4), opChar(120), opPartialCommit(2), opEnd >>,
    cap  |-> << opOpenCapture("Csimple", 0), opChar(97), opChar(98),
                opCloseCapture, opEnd >>,
    \* a capture closed before the position it was opened at
    capb |-> << opAny, opOpenCapture("Csimple", 0), opBehind(1), opCloseCapture,
                opEnd >>,
    \* E <- E '+' n / n with n <- [1-3], both calls left-recursive with level 1
    lr   |-> << opCall(3, 1), opEnd,
                opChoice(8), opCall(3, 1), opChar(43), opSet(Digits),
                opCommit(9),
                opSet(Digits), opRet >>,
    \* E <- E:1 '+' E:2 / n
    lrp  |-> << opCall(3, 1), opEnd,
                opChoice(8), opCall(3, 1), opChar(43), opCall(3, 2), opCommit(9),
                opChar(49), opRet >>,
    \* (R / 'b') with R <- 'a' 'a', an ordinary call under a choice
    alt  |-> << opChoice(4), opCall(6, 0), opCommit(5), opChar(98), opEnd,
                opChar(97), opChar(97), opRet >>,
    \* E <- E 'a' / ''
    lre  |-> << opCall(3, 1), opEnd,
                opChoice(7), opCall(3, 1), opChar(97), opCommit(7), opRet >>,
    \* . . E with E <- E . / Behind(1)
    lrb  |-> << opAny, opAny, opCall(5, 1), opEnd,
                opChoice(9), opCall(5, 1), opAny, opCommit(10), opBehind(1),
                opRet >>,
    \* A <- B 'a' / 'a' and B <- A 'b' / 'b', left-recursive through each other
    lr2  |-> << opCall(3, 1), opEnd,
                opChoice(7), opCall(9, 1), opChar(97), opCommit(8),
                opChar(97), opRet,
                opChoice(13), opCall(3, 1), opChar(98), opCommit(14),
                opChar(98), opRet >>,
    \* E <- !E 'b'
    lrn  |-> << opCall(3, 1), opEnd,
                opChoice(6), opCall(3, 1), opFailTwice, opChar(98), opRet >>,
    \* Cmt('a', f)
    cmt  |-> << opOpenCapture("Cgroup", 0), opChar(97), opCloseRunTime, opEnd >>,
    \* Cmt(Cmt('a', f), f)
    cmt2 |-> << opOpenCapture("Cgroup", 0), opOpenCapture("Cgroup", 0),
                opChar(97), opCloseRunTime, opCloseRunTime, opEnd >>,
    \* #Cmt('', f) 'a'
    andp |-> << opChoice(5), opOpenCapture("Cgroup", 0), opCloseRunTime,
                opBackCommit(6), opFail, opChar(97), opEnd >>,
    \* !'a' .
    notp |-> << opChoice(4), opChar(97), opFailTwice, opAny, opEnd >>,
    \* a choice frame updated by PartialCommit and popped by BackCommit
    pcbc |-> << opChoice(6), opChar(120), opPartialCommit(4), opChar(120),
                opBackCommit(7), opFail, opEnd >>,
    \* Cmt('', f) E with E <- Cg(E '+' Cmt('', f)) / Cmt('1', f)
    lrd  |-> << opOpenCapture("Cgroup", 0), opCloseRunTime, opCall(5, 1), opEnd,
                opChoice(13), opOpenCapture("Cgroup", 1), opCall(5, 1),
                opChar(43), opOpenCapture("Cgroup", 0), opCloseRunTime,
                opCloseCapture, opCommit(16),
                opOpenCapture("Cgroup", 0), opChar(49), opCloseRunTime,
                opRet >>,
    \* Cp ... Cp Cg(E / '') with E <- E C('a') / C('a'): when E is called the
    \* log holds one event more than the initial array has slots
    lrc  |-> [i \in 1..INITCAPSIZE |-> opFullCapture("Cposition", 0, 0)] \o
             << opOpenCapture("Cgroup", 0), opChoice(INITCAPSIZE + 5),
                opCall(INITCAPSIZE + 7, 1), opCommit(INITCAPSIZE + 5),
                opCloseCapture, opEnd,
                opChoice(INITCAPSIZE + 12), opCall(INITCAPSIZE + 7, 1),
                opChar(97), opFullCapture("Csimple", 1, 0),
                opCommit(INITCAPSIZE + 14),
                opChar(97), opFullCapture("Csimple", 1, 0), opRet >>,
    \* B with A <- '' and B <- . A, both called with level 1; the two rules
    \* start at consecutive addresses
    lrk  |-> << opCall(4, 1), opEnd,
                opRet,
                opAny, opCall(3, 1), opRet >>,
    \* E <- Cmt('', f) E 'a' / Cmt('a', f): the recursive call is made with
    \* dynamic values already in the working log
    lrm  |-> << opCall(3, 1), opEnd,
                opChoice(9), opOpenCapture("Cgroup", 0), opCloseRunTime,
                opCall(3, 1), opChar(97), opCommit(12),
                opOpenCapture("Cgroup", 0), opChar(97), opCloseRunTime,
                opRet >>,
    \* utf8.R(lo, hi) / . for two ranges
    utf  |-> << opChoice(4), opUTFR(66, 1114111), opCommit(5), opAny, opEnd >>,
    utf2 |-> << opChoice(4), opUTFR(0, 65535), opCommit(5), opAny, opEnd >>,
    misc |-> << opTestChar(97, 5), opCall(12, 0), opFullCapture("Csimple", 1, 0),
                opJmp(11),
                opTestSet({98}, 8), opSpan({98}), opJmp(11),
                opTestAny(11), opUTFR(128, 2047), opSet({97, 98}),
                opEnd,
                opAny, opRet >> ]

ProgNames == DOMAIN Source

Programs == [n \in ProgNames |-> Code(Source[n])]

Strs(A, n) == UNION {[1..k -> A] : k \in 0..n}

(* subjects for IUTFR: a first byte of every class (ASCII, continuation,    *)
(* the leads of 2, 3 and 4 bytes, of overlong forms and of longer forms)    *)
(* followed by ASCII and continuation bytes, and the two longest forms      *)
UtfLeads == {65, 128, 193, 194, 224, 237, 244, 248, 255}
UtfTails == {65, 128, 144, 191}
UtfSubjects ==
  {<<l>> \o t : l \in UtfLeads, t \in Strs(UtfTails, MaxUtfTail)}
    \cup { << >>, <<248, 128, 128, 128, 128>>,
           <<255, 128, 128, 128, 128, 128, 128, 128>> }

(* the subjects each program is run on *)
Subjects(n) ==
  CASE n \in {"lit", "ord"} -> Strs({97, 98, 99}, MaxShort)
    [] n \in {"star", "star2"} -> Strs({120, 121}, MaxShort + 1)
    [] n = "cap" -> Strs({97, 98}, MaxShort)
    [] n = "capb" -> Strs({97}, MaxShort - 1)
    [] n = "lr" -> Strs(Digits \cup {43}, MaxLen)
    [] n = "lr2" -> Strs({97, 98}, MaxShort)
    [] n = "lrp" -> Strs({49, 43}, MaxLen)
    [] n = "alt" -> Strs({97, 98}, MaxShort)
    [] n = "lre" -> Strs({97, 98}, MaxShort + 1)
    [] n = "lrb" -> Strs({97}, MaxLen)
    [] n = "lrn" -> Strs({97, 98}, MaxShort)
    [] n = "cmt" -> Strs({97, 98}, MaxShort - 1)
    [] n = "cmt2" -> Strs({97}, MaxShort - 1)
    [] n \in {"andp", "notp"} -> Strs({97, 98}, MaxShort - 1)
    [] n = "pcbc" -> Strs({120, 121}, MaxShort)
    [] n = "lrd" -> Strs({49, 43}, MaxShort - 1)
    [] n = "lrc" -> Strs({97, 98}, MaxShort - 1)
    [] n = "lrk" -> Strs({120}, MaxShort - 1)
    [] n = "lrm" -> Strs({97}, 1)
    [] n = "misc" -> Strs({97, 98, 195, 169}, MaxShort)
    [] n \in {"utf", "utf2"} -> UtfSubjects

-----------------------------------------------------------------------------
(* The subject *)

e == Len(subj)
maxpointer == e

(* (byte)*s; the subject is a Lua string, so the byte at e is the           *)
(* terminating NUL                                                          *)
byte(i) == IF 0 <= i /\ i < e THEN subj[i + 1] ELSE 0

code == Programs[prog]
inst == IF p = giveup THEN [opGiveup EXCEPT !.tgt = 0] ELSE code[p]
opcode == inst.code
getoffset == inst.offset

(* the 24-bit upper end of the range of an IUTFR instruction *)
utf_to(i) == i.key * 256 + i.aux

(* Decode one UTF-8 sequence at i: the position after it and the code       *)
(* point, or NULLP for an invalid sequence.  The first byte has 8 bits, so  *)
(* the loop runs at most 7 times; res is dropped once count exceeds 3,      *)
(* where the sequence is rejected whatever res holds.                       *)
RECURSIVE utf8_cont(_, _, _, _)
utf8_cont(i, c, count, res) ==
  IF (c \div 64) % 2 = 1
  THEN LET cc == byte(i + count + 1)
       IN  IF cc \div 64 # 2 THEN [ok |-> FALSE, c |-> c, count |-> count, res |-> res]
           ELSE utf8_cont(i, 2 * c, count + 1,
                          IF count >= 3 THEN 0 ELSE 64 * res + (cc % 64))
  ELSE [ok |-> TRUE, c |-> c, count |-> count, res |-> res]

(* faulty variant: a two-byte form of U+007F passes the test of line 51 *)
utf8_limitslow(count) ==
  CASE count = 0 -> 255 [] count = 1 -> 126 [] count = 2 -> 2047 [] OTHER -> 65535

utf8_limits(count) ==
  CASE count = 0 -> 255 [] count = 1 -> 127 [] count = 2 -> 2047 [] OTHER -> 65535

utf8_decode(i) ==
  LET c == byte(i)
  IN  IF c < 128 THEN [s |-> i + 1, val |-> c]
      ELSE LET r == utf8_cont(i, c, 0, 0)
               res == IF r.count > 3 THEN 0
                      ELSE r.res + (r.c % 128) * (32 ^ r.count)
           IN  IF ~r.ok \/ r.count > 3 \/ res > 1114111 \/ res <= utf8_limits(r.count)
               THEN [s |-> NULLP, val |-> 0]
               ELSE [s |-> i + r.count + 1, val |-> res]

-----------------------------------------------------------------------------
(* Capture arrays.  An array is the sequence of its slots; Junk is a slot   *)
(* of a fresh lua_newuserdata block that was never written.                 *)

Junk == [s |-> NULLP, siz |-> NULLP, kind |-> "?", idx |-> NULLP]
Fresh(n) == [i \in 1..n |-> Junk]
Slot(cap, i) == IF 0 <= i /\ i < Len(cap) THEN cap[i + 1] ELSE Junk

(* the machine state as one record, and its fields written back *)
M == [p |-> p, s |-> s, stack |-> stack, stacksize |-> stacksize,
      capture |-> capture, captop |-> captop,
      capsize |-> capsize, ndyncap |-> ndyncap, dyn |-> dyn,
      capstack |-> capstack, alias |-> alias, lambda |-> lambda,
      status |-> status, lrlog |-> lrlog]

(* capture[i] = c; a store outside the array is undefined behaviour *)
Store(m, i, c) ==
  IF 0 <= i /\ i < Len(m.capture) THEN [m EXCEPT !.capture[i + 1] = c]
  ELSE [m EXCEPT !.status = "ub"]

(* the new size of growcap (lines 99-105): 0 stands for the error "too many *)
(* captures"; captop + n + 1 is an int addition, whose overflow is          *)
(* undefined behaviour (-1)                                                 *)
growsize(ct, n) ==
  IF ct > INT_MAX - n - 1 THEN -1
  ELSE LET newsize == ct + n + 1
       IN  IF newsize < MAXNEWSIZE \div 2 THEN 2 * newsize
           ELSE IF newsize < (MAXNEWSIZE \div 9) * 8
                THEN newsize + newsize \div 8
                ELSE 0

(* memcpy copies ct entries of the old array; what it reads past the end of *)
(* the old array is indeterminate (Junk)                                    *)
growcap(m, ct, n) ==
  IF m.capsize - ct > n THEN m
  ELSE LET sz == growsize(ct, n)
       IN  IF sz = 0 THEN [m EXCEPT !.status = "error"]
           ELSE IF sz < 0 THEN [m EXCEPT !.status = "ub"]
           ELSE [m EXCEPT
                   !.capture = [i \in 1..sz |-> IF i <= ct THEN Slot(m.capture, i - 1)
                                                 ELSE Junk],
                   !.capsize = sz,
                   !.alias = FALSE,
                   !.capstack = IF m.alias
                                THEN [@ EXCEPT ![Len(@)].cap = m.capture]
                                ELSE @]

(* lua_settop on the part of the Lua stack that holds the dynamic values *)
settop(d, n) ==
  IF n <= Len(d) THEN SubSeq(d, 1, n)
  ELSE d \o [i \in 1..(n - Len(d)) |-> << >>]

TopN(d, n) == SubSeq(d, Len(d) - n + 1, Len(d))

Min(S) == CHOOSE x \in S : \A y \in S : x <= y

(* index (relative to the first dynamic value) held by the first runtime    *)
(* capture of capture[level .. last-1], 0 if there is none                  *)
finddyncap(cap, level, last) ==
  LET ids == {i \in level..(last - 1) : Slot(cap, i).kind = "Cruntime"}
  IN  IF ids = {} THEN 0 ELSE Slot(cap, Min(ids)).idx

removedyncap(m, level, last) ==
  LET id == finddyncap(m.capture, level, last)
      top == Len(m.dyn)
  IN  IF id = 0 THEN m
      ELSE [m EXCEPT !.dyn = settop(m.dyn, id - 1),
                     !.ndyncap = @ - (top - id + 1)]

-----------------------------------------------------------------------------
(* Stack frames (struct Stack).  A field a push does not write keeps NULLP; *)
(* no path reads it before it is written.  gs, gc, gu, ps, pc and seeds are *)
(* history fields: cursor and captop when the frame was pushed, whether     *)
(* IPartialCommit has rewritten it and the cursor and captop of the last    *)
(* IPartialCommit, and the seeds a left-recursive frame has recorded; hlog  *)
(* and hdyn are the log and the dynamic values a left-recursive call found. *)

Frame(fs, fp, cl, fX, fpA, hs, hc) ==
  [s |-> fs, p |-> fp, caplevel |-> cl, X |-> fX, pA |-> fpA,
   gs |-> hs, gc |-> hc, gu |-> FALSE, ps |-> NULLP, pc |-> NULLP,
   seeds |-> << >>, hlog |-> << >>, hdyn |-> << >>]

NoFrame == Frame(NULLP, NULLP, NULLP, NULLP, NULLP, NULLP, NULLP)

Top(st) == st[Len(st)]
Pop(st) == SubSeq(st, 1, Len(st) - 1)

IsLR(f) == f.X # NULLP

(* history: the left-recursive invocation of frame f has ended, by a head   *)
(* failure or by rule inc.2 or inc.3                                        *)
Ended(f, by) ==
  [pA |-> f.pA, s0 |-> f.s, seeds |-> f.seeds, by |-> by,
   log |-> f.hlog, dyn |-> f.hdyn]
LRFrames(st) == {i \in 1..Len(st) : IsLR(st[i])}

(* The capture-side stack: one record per level holding the CaptureStack    *)
(* fields and, for the levels below the top, the array caplists[level] and  *)
(* the values dyncaplist[level].                                            *)

Level(ct, dt, cs, arr, vals) ==
  [captop |-> ct, dyncaptop |-> dt, capsize |-> cs, cap |-> arr, dyn |-> vals]

(* key of the memo table *)
lambdaindex(pA, s0) == pA * maxpointer + s0

Entry(x, k) ==
  [X |-> x, k |-> k, commitcap |-> << >>, commitcaptop |-> 0,
   commitdyncap |-> << >>, commitdyncapcount |-> 0]

(* faulty variant: the entry is left in the table *)
keeplambdaitem(m, index) == m

clearlambdaitem(m, index) ==
  [m EXCEPT !.lambda = [i \in (DOMAIN @) \ {index} |-> @[i]]]

(* save captop and the dynamic values of the current level and open a new   *)
(* level                                                                    *)
addcapturestostack(m) ==
  LET t == Len(m.capstack)
      saved == [m.capstack[t] EXCEPT !.captop = m.captop,
                                     !.dyncaptop = m.ndyncap,
                                     !.dyn = TopN(m.dyn, m.ndyncap),
                                     !.cap = IF m.alias THEN m.capture ELSE @]
  IN  [m EXCEPT !.capstack = Append([@ EXCEPT ![t] = saved],
                                    Level(0, 0, 0, << >>, << >>))]

(* a fresh array of 'size' slots becomes the array in use and caplists[top] *)
newcap(m, size) ==
  [m EXCEPT !.capture = Fresh(size), !.alias = TRUE,
            !.capstack[Len(m.capstack)].cap = << >>]

(* faulty variant: the level is left on the capture-side stack *)
keepcapturesonstack(m) == m

removecapturesfromstack(m) == [m EXCEPT !.capstack = Pop(@)]

(* caplists[top] becomes the array in use; the nd current dynamic values    *)
(* are popped and the newdyncap saved ones pushed back                      *)
getcapturesfromstack(m, nd, newdyncap) ==
  LET t == Len(m.capstack)
  IN  [m EXCEPT !.capture = m.capstack[t].cap,
                !.alias = TRUE,
                !.capstack[t].cap = << >>,
                !.dyn = SubSeq(@, 1, Len(@) - nd)
                          \o SubSeq(m.capstack[t].dyn, 1, newdyncap)]

(* leave a left-recursive level: the sequence of lines 426-432, 611-617 and *)
(* 632-638                                                                  *)
poplevel(m) ==
  IF Len(m.capstack) <= 1 THEN [m EXCEPT !.status = "ub"]
  ELSE LET m1 == removecapturesfromstack(m)
           cs == Top(m1.capstack)
           m2 == [m1 EXCEPT !.captop = cs.captop, !.capsize = cs.capsize]
       IN  [getcapturesfromstack(m2, m.ndyncap, cs.dyncaptop)
              EXCEPT !.ndyncap = cs.dyncaptop]

(* faulty variant: the snapshot of the entry is left as it was *)
putnothingtolambda(m, index) == m

(* store the captures and dynamic values just produced in the memo entry *)
putcapturestolambda(m, index) ==
  [m EXCEPT !.lambda[index].commitcap = m.capture,
            !.lambda[index].commitcaptop = m.captop,
            !.lambda[index].commitdyncap = TopN(m.dyn, m.ndyncap),
            !.lambda[index].commitdyncapcount = m.ndyncap]

(* append the captures and dynamic values of a memo entry to the log *)
addcapturesfromlambda(m, index) ==
  IF index \notin DOMAIN m.lambda THEN [m EXCEPT !.status = "error"]
  ELSE
  LET ent == m.lambda[index]
      n == ent.commitcaptop
      cc == [i \in 1..Len(ent.commitcap) |->
               IF i <= n /\ ent.commitcap[i].kind = "Cruntime"
               THEN [ent.commitcap[i] EXCEPT !.idx = @ + m.ndyncap]
               ELSE ent.commitcap[i]]
      m1 == [m EXCEPT !.lambda[index].commitcap = cc,
                      !.dyn = @ \o SubSeq(ent.commitdyncap, 1, ent.commitdyncapcount),
                      !.ndyncap = @ + ent.commitdyncapcount]
      m2 == IF m1.captop + n >= m1.capsize THEN growcap(m1, m1.captop + n, 0)
            ELSE m1
  IN  IF n > 0
      THEN [m2 EXCEPT
              !.capture = [i \in 1..Len(@) |->
                             IF m1.captop < i /\ i <= m1.captop + n
                             THEN cc[i - m1.captop] ELSE @[i]],
              !.captop = @ + n]
      ELSE m1

-----------------------------------------------------------------------------
(* fail: *)

(* the do-while loop of lines 606-620: the frame it stops at and the state  *)
(* it leaves                                                                *)
(* faulty variant: a pending call stops the loop *)
pendingnone(f) == FALSE

(* s == NULL: the frame is a pending call, to be removed (line 620) *)
pending(f) == f.s = NULLP

RECURSIVE unwind(_)
unwind(m) ==
  IF m.stack = << >> THEN [fr |-> NoFrame, m |-> [m EXCEPT !.status = "ub"]]
  ELSE LET f == Top(m.stack)
           m1 == [m EXCEPT !.stack = Pop(@), !.s = f.s]
       IN  IF f.X = LRFAIL
           THEN LET m2 == clearlambdaitem(poplevel(m1), lambdaindex(f.pA, f.s))
                    m3 == [m2 EXCEPT !.lrlog = Ended(f, "head")]
                IN  IF m3.status # "run" THEN [fr |-> NoFrame, m |-> m3]
                    ELSE unwind(m3)
           ELSE IF pending(f) THEN unwind(m1)
           ELSE [fr |-> f, m |-> m1]

fail(m) ==
  LET u == unwind(m)
      f == u.fr
      m1 == IF u.m.ndyncap > 0 THEN removedyncap(u.m, f.caplevel, u.m.captop)
            ELSE u.m
      m2 == [m1 EXCEPT !.p = f.p]
  IN  IF u.m.status # "run" THEN u.m
      ELSE IF f.X # NULLP
      THEN LET index == lambdaindex(f.pA, f.s)
               m3 == poplevel([m2 EXCEPT !.s = f.X])
               m4 == IF m3.status # "run" THEN m3
                     ELSE addcapturesfromlambda(m3, index)
           IN  [clearlambdaitem(m4, index)
                  EXCEPT !.lrlog = Ended(f, "inc2")]
      ELSE [m2 EXCEPT !.captop = f.caplevel]

-----------------------------------------------------------------------------
(* match *)

NoRes == [t |-> "", n |-> 0, extra |-> 0]

DoR(m, op, br, r) ==
  /\ p' = m.p /\ s' = m.s /\ stack' = m.stack /\ capture' = m.capture
  /\ stacksize' = m.stacksize
  /\ captop' = m.captop /\ capsize' = m.capsize /\ ndyncap' = m.ndyncap
  /\ dyn' = m.dyn /\ capstack' = m.capstack /\ alias' = m.alias
  /\ lambda' = m.lambda /\ status' = m.status /\ lrlog' = m.lrlog
  /\ ev' = [op |-> op, br |-> br, arg |-> r]
  /\ UNCHANGED <<prog, subj, start, maxstack, dynbase>>

Do(m, op, br) == DoR(m, op, br, NoRes)

NoLog == Ended(NoFrame, "")

HasRunTime(n) == \E a \in DOMAIN Programs[n] : Programs[n][a].code = "ICloseRunTime"

(* dyncaplistidx(ptop), the Lua stack index above which the dynamic values  *)
(* lie: 8 for a match called with no extra argument, or close to SHRT_MAX   *)
(* for one called with that many extra arguments (tried only on programs    *)
(* that have match-time captures, nothing else reads it)                    *)
DynBases(n) == IF HasRunTime(n) THEN {8, SHRT_MAX - MaxExtra - 2} ELSE {8}

(* the state match starts in, the maximum stack size being one of maxes *)
Boot(maxes) ==
  /\ prog \in ProgNames
  /\ subj \in Subjects(prog)
  /\ start \in {i \in 0..MaxStart : i <= Len(subj)}
  /\ p = 0
  /\ s = start
  /\ stack = << Frame(start, giveup, 0, NULLP, NULLP, start, 0) >>
  /\ stacksize = INITBACK
  /\ maxstack \in maxes
  /\ capture = Fresh(INITCAPSIZE)
  /\ captop = 0
  /\ capsize = INITCAPSIZE
  /\ ndyncap = 0
  /\ dynbase \in DynBases(prog)
  /\ dyn = << >>
  /\ capstack = << Level(0, 0, INITCAPSIZE, << >>, << >>) >>
  /\ alias = TRUE
  /\ lambda = [i \in {} |-> Entry(LRFAIL, 0)]
  /\ status = "run"
  /\ ev = [op |-> "init", br |-> "", arg |-> NoRes]
  /\ lrlog = NoLog

(* the maximum stack size left at its default *)
Init == Boot({MAXBACK})

(* a small maximum stack size set by the host *)
InitStack == Boot(1..MaxStackIdx) /\ Len(subj) <= MaxStackLen

Running(c) == status = "run" /\ opcode = c

IEnd ==
  /\ Running("IEnd")
  /\ Do([Store(M, captop, [Slot(capture, captop) EXCEPT !.kind = "Cclose",
                                                         !.s = NULLP])
           EXCEPT !.status = IF @ = "run" THEN "ok" ELSE @], "IEnd", "ok")

IGiveup ==
  /\ Running("IGiveup")
  /\ Do([M EXCEPT !.status = "fail"], "IGiveup", "ok")

(* the growth branch of IRet, rule lvar.1 inc.1 (lines 401-419) *)
grow(m) ==
  LET f == Top(m.stack)
      index == lambdaindex(f.pA, f.s)
      m1 == [m EXCEPT !.stack[Len(m.stack)].X = m.s,
                      !.stack[Len(m.stack)].caplevel = m.captop,
                      !.stack[Len(m.stack)].seeds = Append(@, m.s),
                      !.p = f.pA,
                      !.s = f.s]
  IN  IF index \notin DOMAIN m.lambda THEN [m1 EXCEPT !.status = "error"]
      ELSE LET m2 == putcapturestolambda([m1 EXCEPT !.lambda[index].X = m.s],
                                         index)
               m3 == newcap([m2 EXCEPT !.dyn = SubSeq(@, 1, Len(@) - m.ndyncap),
                                       !.ndyncap = 0,
                                       !.captop = 0,
                                       !.capsize = INITCAPSIZE], INITCAPSIZE)
           IN  [m3 EXCEPT !.capstack[Len(m.capstack)].captop = 0,
                          !.capstack[Len(m.capstack)].capsize = INITCAPSIZE,
                          !.capstack[Len(m.capstack)].dyncaptop = 0]

(* the end of growth at IRet, rule inc.3 (lines 422-435) *)
inc3(m) ==
  LET f == Top(m.stack)
      index == lambdaindex(f.pA, f.s)
      m1 == poplevel([m EXCEPT !.stack = Pop(@), !.p = f.p, !.s = f.X])
      m2 == IF m1.status # "run" THEN m1 ELSE addcapturesfromlambda(m1, index)
  IN  [clearlambdaitem(m2, index)
         EXCEPT !.lrlog = Ended(f, "inc3")]

(* faulty variant: a seed that is not longer is taken as growth *)
GrowsGE(f, cur) == f.X = LRFAIL \/ cur >= f.X

(* X == LRFAIL || s > X on the frame's seed (line 400) *)
Grows(f, cur) == f.X = LRFAIL \/ cur > f.X

IRet ==
  /\ Running("IRet")
  /\ IF Top(stack).X = NULLP
     THEN Do([M EXCEPT !.p = Top(stack).p, !.stack = Pop(@)], "IRet", "call")
     ELSE IF Grows(Top(stack), s)
          THEN Do(grow(M), "IRet", "grow")
          ELSE Do(inc3(M), "IRet", "inc3")

IAny ==
  /\ Running("IAny")
  /\ IF s < e THEN Do([M EXCEPT !.p = @ + 1, !.s = @ + 1], "IAny", "ok")
     ELSE Do(fail(M), "IAny", "fail")

IUTFR ==
  /\ Running("IUTFR")
  /\ IF s >= e THEN Do(fail(M), "IUTFR", "fail")
     ELSE LET d == utf8_decode(s)
          IN  IF d.s # NULLP /\ inst.offset <= d.val /\ d.val <= utf_to(inst)
              THEN Do([M EXCEPT !.p = @ + 2, !.s = d.s], "IUTFR", "ok")
              ELSE Do(fail([M EXCEPT !.s = d.s]), "IUTFR", "fail")

ITestAny ==
  /\ Running("ITestAny")
  /\ Do([M EXCEPT !.p = IF s < e THEN @ + 2 ELSE @ + getoffset], "ITestAny", "ok")

IChar ==
  /\ Running("IChar")
  /\ IF byte(s) = inst.aux /\ s < e
     THEN Do([M EXCEPT !.p = @ + 1, !.s = @ + 1], "IChar", "ok")
     ELSE Do(fail(M), "IChar", "fail")

ITestChar ==
  /\ Running("ITestChar")
  /\ Do([M EXCEPT !.p = IF byte(s) = inst.aux /\ s < e THEN @ + 2
                        ELSE @ + getoffset], "ITestChar", "ok")

testchar(st, c) == c \in st

ISet ==
  /\ Running("ISet")
  /\ IF testchar(inst.buff, byte(s)) /\ s < e
     THEN Do([M EXCEPT !.p = @ + CHARSETINSTSIZE, !.s = @ + 1], "ISet", "ok")
     ELSE Do(fail(M), "ISet", "fail")

ITestSet ==
  /\ Running("ITestSet")
  /\ Do([M EXCEPT !.p = IF testchar(inst.buff, byte(s)) /\ s < e
                        THEN @ + 1 + CHARSETINSTSIZE
                        ELSE @ + getoffset], "ITestSet", "ok")

IBehind ==
  /\ Running("IBehind")
  /\ IF inst.aux > s THEN Do(fail(M), "IBehind", "fail")
     ELSE Do([M EXCEPT !.s = @ - inst.aux, !.p = @ + 1], "IBehind", "ok")

RECURSIVE span(_, _)
span(st, i) == IF i < e /\ testchar(st, byte(i)) THEN span(st, i + 1) ELSE i

ISpan ==
  /\ Running("ISpan")
  /\ Do([M EXCEPT !.s = span(inst.buff, s), !.p = @ + CHARSETINSTSIZE],
        "ISpan", "ok")

IJmp ==
  /\ Running("IJmp")
  /\ Do([M EXCEPT !.p = @ + getoffset], "IJmp", "ok")

(* the frame IChoice pushes (lines 506-509) *)
choiceframe(m, alt) == Frame(m.s, alt, m.captop, NULLP, NULLP, m.s, m.captop)

(* faulty variant: the array is doubled without looking at the maximum *)
doublestackfree(m) == [m EXCEPT !.stacksize = 2 * @]

(* doublestack: the array of n frames is replaced by one of 2n, at most     *)
(* max, frames holding the same n frames; at the maximum it is the error    *)
(* 'backtrack stack overflow'                                               *)
doublestack(m) ==
  LET n == m.stacksize
      max == maxstack
      newn == IF 2 * n > max THEN max ELSE 2 * n
  IN  IF n >= max THEN [m EXCEPT !.status = "error"]
      ELSE [m EXCEPT !.stacksize = newn]

(* if (stack == stacklimit) stack = doublestack(...) (lines 504-505, 516-517) *)
checkstack(m) == IF Len(m.stack) = m.stacksize THEN doublestack(m) ELSE m

IChoice ==
  /\ Running("IChoice")
  /\ LET m0 == checkstack(M)
     IN  IF m0.status # "run" THEN Do(m0, "IChoice", "overflow")
         ELSE Do([m0 EXCEPT !.stack = Append(@, choiceframe(M, p + getoffset)),
                            !.p = @ + 2], "IChoice", "ok")

(* first entry of a left-recursive call, rule lvar.1 lvar.2 (lines 532-556) *)
lrcall(m, pA, k, ret) ==
  LET index == lambdaindex(pA, m.s)
      m1 == [m EXCEPT !.lambda = (index :> Entry(LRFAIL, k)) @@ @]
      m2 == addcapturestostack(m1)
      m3 == newcap([m2 EXCEPT !.dyn = SubSeq(@, 1, Len(@) - m.ndyncap),
                              !.ndyncap = 0,
                              !.captop = 0,
                              !.capsize = INITCAPSIZE], INITCAPSIZE)
      m4 == [m3 EXCEPT !.capstack[Len(m3.capstack)] =
                          Level(0, 0, INITCAPSIZE, << >>, << >>)]
      f == [Frame(m.s, ret, 0, LRFAIL, pA, m.s, m.captop)
              EXCEPT !.hlog = [i \in 1..m.captop |-> Slot(m.capture, i - 1)],
                     !.hdyn = m.dyn]
  IN  [m4 EXCEPT !.stack = Append(@, f), !.p = pA]

(* faulty variant: a call of the same level is pruned too *)
PrunedLE(ent, k) == ent.X = LRFAIL \/ k <= ent.k

(* a left-recursive call that finds an entry, rules lvar.3 lvar.5 lvar.4    *)
(* (lines 560-573)                                                          *)
Pruned(ent, k) == ent.X = LRFAIL \/ k < ent.k

lrreuse(m, pA) ==
  LET index == lambdaindex(pA, m.s)
      X_X == m.lambda[index].X
  IN  [addcapturesfromlambda(m, index) EXCEPT !.p = m.p + 2, !.s = X_X]

ICall ==
  /\ Running("ICall")
  /\ LET k == inst.aux
         pA == p + getoffset
         index == lambdaindex(pA, s)
         m0 == checkstack(M)
     IN  IF m0.status # "run" THEN Do(m0, "ICall", "overflow")
         ELSE IF k = 0
         THEN Do([m0 EXCEPT !.stack = Append(@, Frame(NULLP, p + 2, NULLP, NULLP,
                                                      NULLP, NULLP, NULLP)),
                            !.p = pA], "ICall", "call")
         ELSE IF index \notin DOMAIN lambda
              THEN Do(lrcall(m0, pA, k, p + 2), "ICall", "new")
              ELSE IF Pruned(lambda[index], k)
                   THEN Do(fail(m0), "ICall", "fail")
                   ELSE Do(lrreuse(m0, pA), "ICall", "lvar4")

(* faulty variant: one frame too many is dropped *)
commit2(st) == Pop(Pop(st))

(* ICommit drops the top frame (line 580) *)
commit(st) == Pop(st)

ICommit ==
  /\ Running("ICommit")
  /\ Do([M EXCEPT !.stack = commit(@), !.p = @ + getoffset], "ICommit", "ok")

(* faulty variant: the saved cursor of the frame is left as it was *)
partialcommitcaplevel(f, cur, ct) ==
  [f EXCEPT !.caplevel = ct, !.gu = TRUE, !.ps = cur, !.pc = ct]

(* the top frame as IPartialCommit rewrites it (lines 586-587) *)
partialcommit(f, cur, ct) ==
  [f EXCEPT !.s = cur, !.caplevel = ct, !.gu = TRUE, !.ps = cur, !.pc = ct]

IPartialCommit ==
  /\ Running("IPartialCommit")
  /\ Do([M EXCEPT !.stack[Len(stack)] = partialcommit(@, s, captop),
                  !.p = @ + getoffset], "IPartialCommit", "ok")

(* faulty variant: captop is not taken from the frame *)
backcommitkeep(m) == [m EXCEPT !.s = Top(m.stack).s, !.stack = Pop(@)]

(* cursor and captop IBackCommit takes from the popped frame (lines 593-594) *)
backcommit(m) ==
  [m EXCEPT !.s = Top(m.stack).s, !.captop = Top(m.stack).caplevel,
            !.stack = Pop(@)]

IBackCommit ==
  /\ Running("IBackCommit")
  /\ Do([backcommit(M) EXCEPT !.p = @ + getoffset], "IBackCommit", "ok")

IFailTwice ==
  /\ Running("IFailTwice")
  /\ Do(fail([M EXCEPT !.stack = Pop(@)]), "IFailTwice", "fail")

IFail ==
  /\ Running("IFail")
  /\ Do(fail(M), "IFail", "fail")

-----------------------------------------------------------------------------
(* Captures *)

isclosecap(c) == c.kind = "Cclose"
isfullcap(c) == c.siz # 0

(* index of the open capture matching the close at index i + 1, counting    *)
(* n closes waiting for their open; -1 if the scan leaves the array         *)
RECURSIVE findopen(_, _, _)
findopen(cap, i, n) ==
  IF i < 0 THEN -1
  ELSE IF isclosecap(Slot(cap, i)) THEN findopen(cap, i - 1, n + 1)
  ELSE IF isfullcap(Slot(cap, i)) THEN findopen(cap, i - 1, n)
  ELSE IF n = 0 THEN i
  ELSE findopen(cap, i - 1, n - 1)

(* the results a match-time function can hand back when called at cursor    *)
(* cur: false, true or a position, with 0..MaxExtra further values          *)
HostResults(cur) ==
  {[t |-> "false", n |-> 0, extra |-> 0]}
    \cup {[t |-> "true", n |-> 0, extra |-> x] : x \in 0..MaxExtra}
    \cup {[t |-> "int", n |-> i, extra |-> x] : i \in cur..(e + 2), x \in 0..MaxExtra}

(* runtimecap: close the group, call the function, drop the dynamic values  *)
(* of the captures nested in the group; the number of nested captures       *)
(* removed and of values dropped                                            *)
runtimecap(m) ==
  LET open == findopen(m.capture, m.captop - 1, 0)
      id == finddyncap(m.capture, open, m.captop)
      otop == Len(m.dyn)
      rem == IF id > 0 THEN otop - id + 1 ELSE 0
      m1 == Store(m, m.captop, [Slot(m.capture, m.captop)
                                  EXCEPT !.kind = "Cclose", !.s = m.s])
  IN  IF open < 0 THEN [n |-> 0, rem |-> 0, m |-> [m EXCEPT !.status = "ub"]]
      ELSE [n |-> m.captop - open - 1, rem |-> rem,
            m |-> [m1 EXCEPT !.dyn = IF id > 0 THEN SubSeq(@, 1, id - 1) ELSE @]]

(* faulty variants: a position beyond the limit is accepted; an invalid     *)
(* position is turned into a fail                                           *)
resdyncapturesnolimit(r, curr, limit) ==
  IF r.t = "false" THEN -1
  ELSE IF r.t = "true" THEN curr
  ELSE IF r.n - 1 < curr THEN NULLP ELSE r.n - 1

resdyncapturesfail(r, curr, limit) ==
  IF r.t = "false" THEN -1
  ELSE IF r.t = "true" THEN curr
  ELSE IF r.n - 1 < curr \/ r.n - 1 > limit THEN -1 ELSE r.n - 1

(* resdyncaptures: the new cursor, LRFAIL (-1) for a false value, NULLP for *)
(* the error 'invalid position returned by match-time capture'              *)
resdyncaptures(r, curr, limit) ==
  IF r.t = "false" THEN -1
  ELSE IF r.t = "true" THEN curr
  ELSE LET res == r.n - 1
       IN  IF res < curr \/ res > limit THEN NULLP ELSE res

(* faulty variant: the value indices start one too high *)
adddyncapturesshifted(m, cur, ct, n, fd) ==
  IF ct < 1 \/ ct + n >= Len(m.capture) THEN [m EXCEPT !.status = "ub"]
  ELSE [m EXCEPT !.capture =
          [i \in 1..Len(@) |->
             IF i = ct THEN [@[i] EXCEPT !.idx = 0]
             ELSE IF ct < i /\ i <= ct + n
                  THEN [kind |-> "Cruntime", siz |-> 1, idx |-> fd + (i - ct),
                        s |-> cur]
             ELSE IF i = ct + n + 1
                  THEN [@[i] EXCEPT !.kind = "Cclose", !.siz = 1, !.s = cur]
             ELSE @[i]]]

(* adddyncaptures: n runtime captures and the close of the group, written   *)
(* from slot ct on; the group at ct - 1 becomes anonymous                   *)
adddyncaptures(m, cur, ct, n, fd) ==
  IF ct < 1 \/ ct + n >= Len(m.capture) THEN [m EXCEPT !.status = "ub"]
  ELSE [m EXCEPT !.capture =
          [i \in 1..Len(@) |->
             IF i = ct THEN [@[i] EXCEPT !.idx = 0]
             ELSE IF ct < i /\ i <= ct + n
                  THEN [kind |-> "Cruntime", siz |-> 1, idx |-> fd + (i - ct - 1),
                        s |-> cur]
             ELSE IF i = ct + n + 1
                  THEN [@[i] EXCEPT !.kind = "Cclose", !.siz = 1, !.s = cur]
             ELSE @[i]]]

(* the values pushed by the call made at cursor cur *)
NewValues(cur, n) == [i \in 1..n |-> <<cur, i>>]

(* fr and the idx of the runtime events are kept relative to dynbase; the   *)
(* check of line 666 is made on the stack index itself                      *)
closeruntime(m, r) ==
  LET rc == runtimecap(m)
      fr == Len(m.dyn) + 1 - rc.rem
      m1 == [rc.m EXCEPT !.captop = @ - rc.n, !.ndyncap = @ - rc.rem]
      res == resdyncaptures(r, m.s, e)
      n == r.extra
      m2 == [m1 EXCEPT !.s = res, !.ndyncap = @ + n, !.dyn = @ \o NewValues(m.s, n)]
  IN  IF rc.m.status # "run" THEN rc.m
      ELSE IF res = NULLP THEN [m1 EXCEPT !.status = "error"]
      ELSE IF res = -1 THEN fail(m1)
      ELSE IF n = 0 THEN [m2 EXCEPT !.captop = @ - 1, !.p = @ + 1]
      ELSE IF dynbase + fr + n >= SHRT_MAX THEN [m2 EXCEPT !.status = "error"]
      ELSE LET m3 == growcap(m2, m2.captop, n + 1)
           IN  [adddyncaptures(m3, res, m3.captop, n, fr)
                  EXCEPT !.captop = @ + n + 1, !.p = @ + 1]

ICloseRunTime ==
  /\ Running("ICloseRunTime")
  /\ \E r \in HostResults(s) :
       DoR(closeruntime(M, r), "ICloseRunTime",
           IF r.t = "false" THEN "fail" ELSE "ok", r)

(* pushcapture: (lines 700-706) *)
pushcapture(m, c) ==
  LET m1 == Store(m, m.captop, c)
      m2 == growcap([m1 EXCEPT !.captop = @ + 1], m.captop + 1, 0)
  IN  [m2 EXCEPT !.p = @ + 1]

ICloseCapture ==
  /\ Running("ICloseCapture")
  /\ LET last == Slot(capture, captop - 1)
     IN  IF last.siz = 0 /\ s - last.s < UCHAR_MAX
         THEN Do([Store(M, captop - 1, [last EXCEPT !.siz = (s - last.s + 1) % 256])
                    EXCEPT !.p = @ + 1], "ICloseCapture", "full")
         ELSE Do(pushcapture(M, [siz |-> 1, s |-> s, idx |-> inst.key,
                                 kind |-> inst.aux]), "ICloseCapture", "close")

IOpenCapture ==
  /\ Running("IOpenCapture")
  /\ Do(pushcapture(M, [siz |-> 0, s |-> s, idx |-> inst.key, kind |-> inst.aux]),
        "IOpenCapture", "ok")

IFullCapture ==
  /\ Running("IFullCapture")
  /\ Do(pushcapture(M, [siz |-> inst.offset + 1, s |-> s - inst.offset,
                        idx |-> inst.key, kind |-> inst.aux]),
        "IFullCapture", "ok")

-----------------------------------------------------------------------------

Next ==
  \/ IEnd \/ IGiveup \/ IRet \/ IAny \/ IUTFR \/ ITestAny \/ IChar
  \/ ITestChar \/ ISet \/ ITestSet \/ IBehind \/ ISpan \/ IJmp \/ IChoice
  \/ ICall \/ ICommit \/ IPartialCommit \/ IBackCommit \/ IFailTwice \/ IFail
  \/ ICloseRunTime \/ ICloseCapture \/ IOpenCapture \/ IFullCapture

Spec == Init /\ [][Next]_vars

SpecStack == InitStack /\ [][Next]_vars

-----------------------------------------------------------------------------
(* growcap on its own: the calls the three call sites can make *)

(* sizes of the arrays whose entries are represented, and the extra entries *)
(* asked for                                                                *)
MaxGrowLen == 4
MaxGrowExtra == 3

(* the sizes around which the growth policy changes; arrays of these sizes  *)
(* are represented by their size only                                       *)
BigSizes ==
  {MAXNEWSIZE \div 2 + d : d \in -3..1}
    \cup {(MAXNEWSIZE \div 9) * 8 + d : d \in -3..1}
    \cup {growsize((MAXNEWSIZE \div 9) * 8 - 2, 0) + d : d \in -1..0}

(* pushcapture (line 704): captop already incremented, no extra entry;      *)
(* ICloseRunTime (line 669): n values and the close entry;                  *)
(* addcapturesfromlambda (lines 323-324): called when captop + commitcaptop *)
(* >= capsize, with that sum as captop and no extra entry                   *)
GrowCallOK(a) ==
  CASE a.site = "pushcapture" ->
         a.captop \in 1..a.capsize /\ a.ct = a.captop
    [] a.site = "ICloseRunTime" ->
         a.captop \in 0..(a.capsize - 1) /\ a.ct = a.captop
    [] a.site = "addcapturesfromlambda" ->
         /\ a.captop \in 0..(a.capsize - 1)
         /\ \E c \in 1..MaxGrowExtra :
              a.captop + c >= a.capsize /\ a.ct = a.captop + c

(* an array of capsize slots of which the first captop are written *)
Written(size, top) ==
  [i \in 1..size |-> IF i <= top THEN [s |-> i - 1, siz |-> 1, kind |-> "Cposition",
                                        idx |-> 0]
                     ELSE Junk]

InitGrow ==
  /\ prog = "growcap" /\ subj = << >> /\ start = 0 /\ p = 0 /\ s = 0
  /\ stack = << Frame(0, giveup, 0, NULLP, NULLP, 0, 0) >>
  /\ stacksize = INITBACK /\ maxstack = MAXBACK
  /\ \E site \in {"pushcapture", "ICloseRunTime", "addcapturesfromlambda"},
        size \in (1..MaxGrowLen) \cup BigSizes,
        back \in 0..MaxGrowLen,
        c \in 0..MaxGrowExtra + 1 :
        LET top == size - back
            a == [site |-> site, capsize |-> size, captop |-> top,
                  ct |-> IF site = "addcapturesfromlambda" THEN top + c ELSE top,
                  n |-> IF site = "ICloseRunTime" THEN c ELSE 0]
        IN  /\ top >= 0
            /\ c <= INT_MAX - top
            /\ site = "pushcapture" => c = 0
            /\ site = "ICloseRunTime" => c >= 2
            /\ GrowCallOK(a)
            /\ capsize = size /\ captop = top
            /\ capture = IF size <= MaxGrowLen THEN Written(size, top) ELSE << >>
            /\ ev = [op |-> site, br |-> "call", arg |-> [ct |-> a.ct, n |-> a.n]]
  /\ ndyncap = 0 /\ dynbase = 8 /\ dyn = << >>
  /\ capstack = << Level(0, 0, INITCAPSIZE, << >>, << >>) >>
  /\ alias = FALSE
  /\ lambda = [i \in {} |-> Entry(LRFAIL, 0)]
  /\ status = "run"
  /\ lrlog = NoLog

GrowEnd(m) ==
  DoR(m, ev.op, IF m.status = "run" THEN "ret" ELSE m.status, ev.arg)

(* growcap on an array whose entries are represented *)
GrowCap ==
  /\ status = "run" /\ ev.br = "call" /\ capture # << >>
  /\ GrowEnd(growcap(M, ev.arg.ct, ev.arg.n))

(* growcap on a large array: the test of line 95 and the new size *)
GrowSize ==
  /\ status = "run" /\ ev.br = "call" /\ capture = << >>
  /\ LET sz == growsize(ev.arg.ct, ev.arg.n)
     IN  GrowEnd(IF capsize - ev.arg.ct > ev.arg.n THEN M
                 ELSE IF sz = 0 THEN [M EXCEPT !.status = "error"]
                 ELSE IF sz < 0 THEN [M EXCEPT !.status = "ub"]
                 ELSE [M EXCEPT !.capsize = sz])

NextGrow == GrowCap \/ GrowSize

SpecGrow == InitGrow /\ [][NextGrow]_vars

-----------------------------------------------------------------------------
(* Sanity of the model *)

TypeOK ==
  /\ Len(capture) = capsize
  /\ Len(dyn) = ndyncap
  /\ Len(stack) <= stacksize
  /\ status \in {"run", "ok", "fail", "error", "ub"}

-----------------------------------------------------------------------------
(* Properties *)

Max(S) == CHOOSE x \in S : \A y \in S : y <= x

Increasing(q) == \A i \in 1..(Len(q) - 1) : q[i] < q[i + 1]

(* the first k bytes of the subject have the form n ('+' n)* *)
IsSum(k) ==
  /\ k \in 1..e
  /\ k % 2 = 1
  /\ \A i \in 1..k : IF i % 2 = 1 THEN subj[i] \in Digits ELSE subj[i] = 43

(* C1: the program of E <- E '+' n / n run from start 0 returns the end of  *)
(* the longest prefix n ('+' n)* of the subject, and fails exactly when the *)
(* subject does not begin with n; the seeds recorded by the growth          *)
(* iterations are strictly increasing and the last seed is the position     *)
(* returned.                                                                *)
C1_LeftRecursiveSum ==
  (prog = "lr" /\ start = 0) =>
    /\ status \in {"run", "ok", "fail"}
    /\ \A i \in LRFrames(stack) : Increasing(stack[i].seeds)
    /\ status = "ok" =>
         /\ IsSum(s)
         /\ \A k \in (s + 1)..e : ~IsSum(k)
         /\ lrlog.by = "inc3"
         /\ lrlog.seeds # << >>
         /\ Increasing(lrlog.seeds)
         /\ lrlog.seeds[Len(lrlog.seeds)] = s
    /\ status = "fail" <=> (status # "run" /\ ~IsSum(1))

(* "1+2+3" matched up to position 5 through the seeds 1, 3, 5 *)
C1_Witness ==
  /\ prog = "lr" /\ start = 0
  /\ subj = <<49, 43, 50, 43, 51>>
  /\ status = "ok" /\ s = 5
  /\ lrlog.seeds = <<1, 3, 5>>

(* the stack the fail: label starts from, and its frames that save a cursor *)
FailStack == IF opcode = "IFailTwice" THEN Pop(stack) ELSE stack
SavedFrames(st) == {i \in 1..Len(st) : st[i].s # NULLP}

FailToChoice ==
  LET st == FailStack
      sv == SavedFrames(st)
  IN  (status = "run" /\ ev'.br = "fail" /\ sv # {} /\ st[Max(sv)].X = NULLP) =>
        /\ stack' = SubSeq(st, 1, Max(sv) - 1)
        /\ p' = st[Max(sv)].p
        /\ s' = st[Max(sv)].s
        /\ captop' = st[Max(sv)].caplevel
        /\ status' = "run"

OrdResult ==
  (prog = "ord" /\ status # "run") =>
    IF start < e /\ subj[start + 1] \in {97, 98}
    THEN status = "ok" /\ s = start + 1
    ELSE status = "fail"

(* C2: a fail (a consume mismatch, Fail, FailTwice after its pop, a pruned  *)
(* call, a rejected match-time capture) whose nearest frame with a saved    *)
(* cursor has X = NULL (a choice frame, or the sentinel frame, which has    *)
(* the same shape) drops the call frames above it and the frame itself and  *)
(* resumes with the frame's p, s and caplevel; so Choice L1; Char 'a';      *)
(* Commit L2; L1: Char 'b'; L2: End returns start + 1 on a subject with 'a' *)
(* or 'b' at start and fails on any other.                                  *)
C2_FailResumesAtChoice == []OrdResult /\ [][FailToChoice]_vars

(* (R / 'b') with R <- 'a' 'a': a mismatch inside R has dropped the call    *)
(* frame and the choice frame and resumed at the alternative                *)
C2_Witness ==
  /\ prog = "alt" /\ status = "run"
  /\ ev.op = "IChar" /\ ev.br = "fail"
  /\ p = AddrOf(Source.alt, 4)
  /\ s = start /\ Len(stack) = 1

(* C3: when match returns FAIL, captop is 0 and no dynamic capture is left  *)
C3_FailLeavesNothing == status = "fail" => (captop = 0 /\ ndyncap = 0)

RuntimeEvents == {i \in 0..(captop - 1) : Slot(capture, i).kind = "Cruntime"}

(* C4: between two instructions ndyncap <= captop and ndyncap is the number *)
(* of runtime captures among capture[0 .. captop-1]                         *)
C4_DynCapCount ==
  status = "run" => (ndyncap <= captop /\ ndyncap = Cardinality(RuntimeEvents))

FrameKey(f) == lambdaindex(f.pA, f.s)

(* C5: every live left-recursive frame has its entry in the memo table, no  *)
(* two live frames share a key, and every entry belongs to a live frame: a  *)
(* frame that a step pops (head failure, inc.2, inc.3) has no entry left    *)
(* after that step.                                                         *)
C5_MemoCoherence ==
  /\ \A i \in LRFrames(stack) : FrameKey(stack[i]) \in DOMAIN lambda
  /\ \A i, j \in LRFrames(stack) :
       i # j => FrameKey(stack[i]) # FrameKey(stack[j])
  /\ \A k \in DOMAIN lambda : \E i \in LRFrames(stack) : FrameKey(stack[i]) = k

(* an invocation has just ended by head failure while another is live *)
C5_Witness ==
  /\ ev.br = "fail" /\ lrlog.by = "head"
  /\ Cardinality(LRFrames(stack)) = 1
  /\ DOMAIN lambda = {FrameKey(stack[Max(LRFrames(stack))])}
  /\ lrlog.pA # stack[Max(LRFrames(stack))].pA

(* C6 as stated: a left-recursive invocation (pA, s0) takes the growth      *)
(* branch of IRet at most limit - s0 + 1 times                              *)
C6_GrowthBound ==
  \A i \in LRFrames(stack) : Len(stack[i].seeds) <= e - stack[i].s + 1

(* the lowest position the seeds of a frame start from *)
SeedBase(f) == IF f.seeds = << >> THEN f.s ELSE Min({f.s, f.seeds[1]})

(* C6: the first seed is recorded whatever its position and every later    *)
(* seed is strictly greater than the one before, so an invocation takes the *)
(* growth branch at most limit - min(s0, first seed) + 1 times, which is at *)
(* most limit - origin + 1 and is limit - s0 + 1 when the first seed is not *)
(* before s0.                                                               *)
C6_GrowthBoundFromFirstSeed ==
  \A i \in LRFrames(stack) :
    /\ Increasing(stack[i].seeds)
    /\ \A j \in 1..Len(stack[i].seeds) :
         stack[i].seeds[j] \in 0..e /\ stack[i].X = stack[i].seeds[Len(stack[i].seeds)]
    /\ Len(stack[i].seeds) <= e - SeedBase(stack[i]) + 1
    /\ Len(stack[i].seeds) <= e + 1
    /\ SeedBase(stack[i]) = stack[i].s => Len(stack[i].seeds) <= e - stack[i].s + 1

(* E <- E . / Behind(1) called at 2 on "aaaa": four growths, seeds 1 2 3 4  *)
C6_Witness ==
  /\ prog = "lrb" /\ start = 0 /\ e = 4
  /\ \E i \in LRFrames(stack) :
       stack[i].s = 2 /\ stack[i].seeds = <<1, 2, 3, 4>>

(* C7: at every instruction boundary origin <= s <= limit *)
C7_CursorInRange ==
  status \in {"run", "ok", "fail"} => (0 <= s /\ s <= e)

(* a two-byte UTF-8 sequence consumed up to the limit *)
C7_Witness ==
  /\ prog = "misc" /\ status = "run"
  /\ ev.op = "IUTFR" /\ ev.br = "ok"
  /\ s = e

IsSentinel(f) ==
  f.p = giveup /\ f.s = start /\ f.caplevel = 0 /\ f.X = NULLP

(* C8 as stated: the stack pointer stays strictly above the stack base in   *)
(* every state of a match, the final fail included                          *)
C8_SentinelNeverPopped ==
  status \in {"run", "ok", "fail"} => (Len(stack) >= 1 /\ IsSentinel(stack[1]))

(* C8: the sentinel frame stays at stack[0], and is the only frame that     *)
(* returns to Giveup, while the program's own instructions run and when     *)
(* IEnd returns; the fail that finds no other frame to stop at pops it, so  *)
(* IGiveup runs with the stack pointer at the stack base, s = start and     *)
(* captop = 0.                                                              *)
C8_SentinelPoppedByFinalFail ==
  /\ (status \in {"run", "ok", "error"} /\ p # giveup) =>
       (Len(stack) >= 1 /\ IsSentinel(stack[1]))
  /\ \A i \in 2..Len(stack) : stack[i].p # giveup
  /\ p = giveup => (stack = << >> /\ s = start /\ captop = 0
                    /\ (ev.br = "fail" \/ ev.op = "IGiveup")
                    /\ status \in {"run", "fail"})
  /\ status = "fail" => p = giveup

(* the final fail has popped the sentinel and IGiveup has returned *)
C8_Witness ==
  status = "fail" /\ stack = << >> /\ ev.op = "IGiveup"

(* C9 as stated: IBackCommit restores s and captop to their values when the *)
(* IChoice that pushed the frame ran                                        *)
BackToChoice ==
  (status = "run" /\ ev'.op = "IBackCommit" /\ Top(stack).X = NULLP
     /\ Top(stack).gs # NULLP) =>
    (s' = Top(stack).gs /\ captop' = Top(stack).gc)

C9_BackCommitRestoresChoice == [][BackToChoice]_vars

BackToLastUpdate ==
  (status = "run" /\ ev'.op = "IBackCommit" /\ Top(stack).X = NULLP
     /\ Top(stack).gs # NULLP) =>
    /\ stack' = Pop(stack)
    /\ IF Top(stack).gu
       THEN s' = Top(stack).ps /\ captop' = Top(stack).pc
       ELSE s' = Top(stack).gs /\ captop' = Top(stack).gc

(* C9: IBackCommit pops the choice frame and restores s and captop to their *)
(* values when IChoice pushed it if no IPartialCommit ran on the frame, and *)
(* otherwise to their values at the most recent IPartialCommit on it.       *)
C9_BackCommitRestoresLastUpdate == [][BackToLastUpdate]_vars

(* Choice; 'x'; PartialCommit; 'x'; BackCommit on "xx": back to 1, not 0 *)
C9_Witness ==
  /\ prog = "pcbc" /\ status = "run"
  /\ ev.op = "IBackCommit"
  /\ start = 0 /\ s = 1 /\ Len(stack) = 1

ChoiceFrames(st) ==
  {i \in 1..Len(st) : st[i].X = NULLP /\ st[i].s # NULLP /\ st[i].p # giveup}

(* what ICloseRunTime does with a true or integer result *)
(* the match goes on after an accepted result, unless the extra values     *)
(* reach SHRT_MAX (the error 'too many results in match-time capture')      *)
Accepted(r) ==
  IF r.extra > 0
       /\ dynbase + (Len(dyn) + 1 - runtimecap(M).rem) + r.extra >= SHRT_MAX
  THEN "error" ELSE "run"

HostAccepts(r) ==
  CASE r.t = "true" -> s' = s /\ status' = Accepted(r)
    [] r.t = "int" /\ s <= r.n - 1 /\ r.n - 1 <= e ->
         s' = r.n - 1 /\ status' = Accepted(r)
    [] OTHER -> status' = "error" /\ stack' = stack /\ p' = p /\ lambda' = lambda

FalsyToChoice ==
  (status = "run" /\ ev'.op = "ICloseRunTime") =>
    IF ev'.arg.t = "false"
    THEN IF ChoiceFrames(stack) # {}
         THEN /\ p' = stack[Max(ChoiceFrames(stack))].p
              /\ s' = stack[Max(ChoiceFrames(stack))].s
         ELSE p' = giveup
    ELSE HostAccepts(ev'.arg)

(* C10 as stated: a falsy result resumes at the nearest choice frame, or    *)
(* ends the match with FAIL if there is none; true keeps s; an integer n    *)
(* with s <= n-1 <= limit sets s to n-1; any other integer is the fatal     *)
(* error, never a fail                                                      *)
C10_HostResult == [][FalsyToChoice]_vars

(* the frames the unwinding loop can stop at *)
StopFrames(st) == {i \in 1..Len(st) : st[i].s # NULLP /\ st[i].X # LRFAIL}

FalsyToFail ==
  (status = "run" /\ ev'.op = "ICloseRunTime") =>
    IF ev'.arg.t = "false"
    THEN LET i == Max(StopFrames(stack))
             f == stack[i]
         IN  /\ stack' = SubSeq(stack, 1, i - 1)
             /\ p' = f.p
             /\ status' = "run"
             /\ IF f.X = NULLP
                THEN s' = f.s /\ captop' = f.caplevel
                ELSE s' = f.X /\ FrameKey(f) \notin DOMAIN lambda'
    ELSE HostAccepts(ev'.arg)

(* C10: a falsy result takes the fail: path, which stops at the nearest     *)
(* frame that saves a cursor and whose X is not LRFAIL: a choice frame      *)
(* (resume at its alternative with its s and caplevel), the sentinel        *)
(* (Giveup), or a left-recursive frame holding a seed, and then the call    *)
(* returns with s = the seed and its memo entry is erased (rule inc.2);     *)
(* true keeps s; an integer n with s <= n-1 <= limit sets s to n-1; any     *)
(* other integer is the fatal error with the stack untouched, never a fail. *)
C10_HostResultThroughFail == [][FalsyToFail]_vars

(* a match-time capture rejected inside a left-recursive invocation that    *)
(* holds a seed: the call returns with the seed                             *)
C10_Witness ==
  /\ ev.op = "ICloseRunTime" /\ ev.arg.t = "false"
  /\ lrlog.by = "inc2" /\ status = "run"
  /\ s = lrlog.seeds[Len(lrlog.seeds)]

(***************************************************************************)
(* The backtrack stack and its maximum size                                *)
(***************************************************************************)

(* what the code keeps: the frames fit the array, and the array is the      *)
(* initial one or no larger than the maximum                                *)
StackWithinArray ==
  /\ Len(stack) <= stacksize
  /\ stacksize <= (IF maxstack > INITBACK THEN maxstack ELSE INITBACK)

(* a stack overflow ends the match with an error and is never turned into   *)
(* a fail: no frame is popped, and it happens only on a full array that is  *)
(* at or above the maximum                                                  *)
OverflowIsFatal ==
  (ev'.br = "overflow") =>
     /\ status' = "error" /\ stack' = stack /\ p' = p /\ s' = s
     /\ Len(stack) = stacksize /\ stacksize >= maxstack

(* a push on a full array below the maximum doubles it, capped at the       *)
(* maximum, and keeps every frame                                           *)
DoublingKeepsFrames ==
  (status = "run" /\ Len(stack') = Len(stack) + 1 /\ Len(stack) = stacksize) =>
     /\ stacksize < maxstack
     /\ stacksize' = (IF 2 * stacksize > maxstack THEN maxstack ELSE 2 * stacksize)
     /\ SubSeq(stack', 1, Len(stack)) = stack

StackSteps == [][OverflowIsFatal /\ DoublingKeepsFrames]_vars

(* C11: the number of frames on the backtrack stack never exceeds the       *)
(* maximum stack size, whatever value that maximum was given                *)
C11_StackWithinMaximum == Len(stack) <= maxstack

(***************************************************************************)
(* The capture log of a successful match                                   *)
(***************************************************************************)

(* nesting depth after the events cap[i .. n-1] read from depth d, NULLP if *)
(* one of them is a close with no open before it or a slot that holds no    *)
(* event                                                                    *)
RECURSIVE Depth(_, _, _, _)
Depth(cap, i, n, d) ==
  IF i >= n THEN d
  ELSE LET c == Slot(cap, i)
       IN  IF c.kind = "?" THEN NULLP
           ELSE IF isclosecap(c) THEN (IF d = 0 THEN NULLP
                                       ELSE Depth(cap, i + 1, n, d - 1))
           ELSE IF isfullcap(c) THEN Depth(cap, i + 1, n, d)
           ELSE Depth(cap, i + 1, n, d + 1)

WellNested(cap, n) == Depth(cap, 0, n, 0) = 0

(* C12: on a successful match the log entries 0..captop-1 are well nested:  *)
(* every open event has its close at the same depth and no close comes      *)
(* without an open before it                                                *)
C12_WellNestedLog == status = "ok" => WellNested(capture, captop)

(***************************************************************************)
(* The key of the memo table                                               *)
(***************************************************************************)

(* the rule targets of the program: the addresses its calls jump to *)
Targets == {a + code[a].offset : a \in {b \in DOMAIN code : code[b].code = "ICall"}}

KeyInjective ==
  \A pA \in Targets, pB \in Targets, s0 \in 0..e, s1 \in 0..e :
     lambdaindex(pA, s0) = lambdaindex(pB, s1) => (pA = pB /\ s0 = s1)

(* a left-recursive call that finds an entry finds the entry of an          *)
(* invocation of the same rule at the same cursor                           *)
ReadsOwnEntry ==
  (status = "run" /\ ev'.op = "ICall" /\ ev'.br \in {"fail", "lvar4"}) =>
     \E i \in LRFrames(stack) :
        stack[i].pA = p + getoffset /\ stack[i].s = s

(* C13: the key of the memo table is one-to-one on the pairs (pA, s0) with  *)
(* pA a rule target and origin <= s0 <= limit, so a left-recursive          *)
(* invocation never reads the entry of another one, on an empty subject and *)
(* at s0 = limit included                                                   *)
C13_MemoKeyInjective == []KeyInjective /\ [][ReadsOwnEntry]_vars

(***************************************************************************)
(* The caller's log around a left-recursive invocation                     *)
(***************************************************************************)

(* a new left-recursive invocation starts on an empty working log *)
LRStart ==
  (status = "run" /\ ev'.op = "ICall" /\ ev'.br = "new") =>
     captop' = 0 /\ ndyncap' = 0 /\ dyn' = << >>

(* the step ends a left-recursive invocation in the way 'by' *)
LREnds(by) == lrlog' # lrlog /\ lrlog'.by = by /\ status = "run"

(* the first n entries of the log are the first n events of q *)
LogBegins(cap, q, n) ==
  n <= Len(q) /\ \A i \in 0..(n - 1) : Slot(cap, i) = q[i + 1]

(* after a head failure the log and the dynamic values are those of Call    *)
(* time, cut back to the frame the fail resumes *)
LRHeadFail ==
  LREnds("head") =>
     /\ status' = "run"
     /\ LogBegins(capture', lrlog'.log, captop')
     /\ captop' < capsize'
     /\ ndyncap' <= Len(lrlog'.dyn)
     /\ dyn' = SubSeq(lrlog'.dyn, 1, ndyncap')

(* event j of a snapshot as it is spliced after nd dynamic values *)
Spliced(c, nd) == IF c.kind = "Cruntime" THEN [c EXCEPT !.idx = @ + nd] ELSE c

(* after the end of growth the log is the Call-time log followed by the     *)
(* events of the last snapshot, and likewise the dynamic values             *)
LRGrowthEnd ==
  (LREnds("inc2") \/ LREnds("inc3")) =>
     LET index == lambdaindex(lrlog'.pA, lrlog'.s0)
         ent == lambda[index]
         base == Len(lrlog'.log)
         n == ent.commitcaptop
     IN  /\ status' = "run"
         /\ index \in DOMAIN lambda
         /\ captop' = base + n
         /\ captop' < capsize'
         /\ LogBegins(capture', lrlog'.log, base)
         /\ \A j \in 1..n :
               Slot(capture', base + j - 1)
                 = Spliced(ent.commitcap[j], Len(lrlog'.dyn))
         /\ dyn' = lrlog'.dyn \o SubSeq(ent.commitdyncap, 1, ent.commitdyncapcount)
         /\ ndyncap' = Len(dyn')

(* C14: a left-recursive invocation starts with captop = 0 and ndyncap = 0; *)
(* when it ends by a head failure the caller's log and dynamic values are   *)
(* those of Call time, when it ends after growth they are those of Call     *)
(* time followed by the last snapshot, however many events the caller had   *)
(* appended before the call                                                 *)
C14_CallerLogRestored == [][LRStart /\ LRHeadFail /\ LRGrowthEnd]_vars

(***************************************************************************)
(* Splicing a memo entry into the log                                      *)
(***************************************************************************)

(* the entry a left-recursive call splices (rule lvar.4) is the same after  *)
(* the splice as before                                                     *)
SpliceKeepsEntry ==
  (status = "run" /\ ev'.op = "ICall" /\ ev'.br = "lvar4") =>
     LET index == lambdaindex(p + getoffset, s)
     IN  index \in DOMAIN lambda' /\ lambda'[index] = lambda[index]

(* C15: splicing a memo entry's captures into the log leaves the entry      *)
(* unchanged: its X, its k and every field of every event of its snapshot,  *)
(* the value index of runtime events included                               *)
C15_SpliceKeepsEntry == [][SpliceKeepsEntry]_vars

(***************************************************************************)
(* The free slot of the capture array                                      *)
(***************************************************************************)

(* C16: at every instruction boundary the capture array in use has a free   *)
(* slot above the log: captop < capsize                                     *)
C16_FreeSlot == status = "run" => captop < capsize

(***************************************************************************)
(* A left-recursive call that finds a memo entry                           *)
(***************************************************************************)

LRCallOnEntry ==
  (status = "run" /\ opcode = "ICall" /\ inst.aux > 0
     /\ lambdaindex(p + getoffset, s) \in DOMAIN lambda /\ ev'.op = "ICall") =>
     LET k == inst.aux
         ent == lambda[lambdaindex(p + getoffset, s)]
         n == ent.commitcaptop
     IN  IF ent.X = LRFAIL \/ k < ent.k
         THEN ev'.br = "fail" /\ Len(stack') < Len(stack)
         ELSE /\ status' = "run"
              /\ stack' = stack
              /\ lambda' = lambda
              /\ s' = ent.X
              /\ p' = p + 2
              /\ captop' = captop + n
              /\ LogBegins(capture', [i \in 1..captop |-> Slot(capture, i - 1)],
                           captop)
              /\ \A j \in 1..n :
                    Slot(capture', captop + j - 1)
                      = Spliced(ent.commitcap[j], ndyncap)

(* C17: a left-recursive call at a (pA, s0) that has a memo entry pushes no *)
(* frame; it fails if the entry's X is LRFAIL or k is below the entry's k,  *)
(* and otherwise leaves the stack and the memo table as they are, appends   *)
(* the entry's captures to the log, sets s to the entry's X and continues   *)
(* after the call                                                           *)
C17_CallOnEntry == [][LRCallOnEntry]_vars

(***************************************************************************)
(* Ret on a left-recursive frame                                           *)
(***************************************************************************)

(* the entries of the memo table other than index are left alone *)
OthersKept(index) ==
  /\ (DOMAIN lambda') \ {index} = (DOMAIN lambda) \ {index}
  /\ \A i \in (DOMAIN lambda) \ {index} : lambda'[i] = lambda[i]

LRRet ==
  (status = "run" /\ opcode = "IRet" /\ IsLR(Top(stack)) /\ ev'.op = "IRet") =>
     LET f == Top(stack)
         index == FrameKey(f)
         ent == lambda[index]
     IN  /\ index \in DOMAIN lambda
         /\ f.X = ent.X
         /\ status' = "run"
         /\ OthersKept(index)
         /\ IF ent.X = LRFAIL \/ s > ent.X
            THEN /\ Len(stack') = Len(stack)
                 /\ Pop(stack') = Pop(stack)
                 /\ Top(stack').s = f.s /\ Top(stack').p = f.p
                 /\ Top(stack').pA = f.pA /\ Top(stack').X = s
                 /\ index \in DOMAIN lambda'
                 /\ lambda'[index].X = s /\ lambda'[index].k = ent.k
                 /\ lambda'[index].commitcaptop = captop
                 /\ LogBegins(lambda'[index].commitcap,
                              [i \in 1..captop |-> Slot(capture, i - 1)], captop)
                 /\ lambda'[index].commitdyncapcount = ndyncap
                 /\ SubSeq(lambda'[index].commitdyncap, 1, ndyncap)
                      = TopN(dyn, ndyncap)
                 /\ captop' = 0 /\ ndyncap' = 0
                 /\ s' = f.s /\ p' = f.pA
            ELSE /\ stack' = Pop(stack)
                 /\ s' = ent.X
                 /\ p' = f.p
                 /\ index \notin DOMAIN lambda'

(* C18: at Ret with a left-recursive frame on top the frame's seed is the   *)
(* X of the memo entry of the frame's (pA, s0); if that X is LRFAIL or      *)
(* s > X the frame stays, the entry's X becomes s, the captures just        *)
(* produced become its snapshot, captop and ndyncap become 0, s becomes s0  *)
(* and p becomes pA; otherwise the frame is popped, s becomes the entry's   *)
(* X, p the frame's return address, and the entry is erased                 *)
C18_RetOnLRFrame == [][LRRet]_vars

(* a growth that recorded two seeds with captures, ended by rule inc.3 *)
C18_Witness ==
  /\ ev.op = "IRet" /\ ev.br = "inc3" /\ status = "run"
  /\ Len(lrlog.seeds) >= 2
  /\ s = lrlog.seeds[Len(lrlog.seeds)]
  /\ captop > Len(lrlog.log)
  /\ FrameKey([pA |-> lrlog.pA, s |-> lrlog.s0]) \notin DOMAIN lambda

(***************************************************************************)
(* The log after CloseRunTime                                              *)
(***************************************************************************)

(* CloseRunTime is executed with a host result that is not false *)
RunTimeStep == status = "run" /\ ev'.op = "ICloseRunTime" /\ ev'.arg.t # "false"

AfterCloseRunTime ==
  RunTimeStep =>
     LET n == ev'.arg.extra
         rc == runtimecap(M)
         rem == rc.rem
         open == captop - rc.n - 1
         first == Len(dyn) - rem + 1
     IN  /\ open = findopen(capture, captop - 1, 0)
         /\ (n > 0 /\ dynbase + first + n >= SHRT_MAX) => status' = "error"
         /\ status' = "run" =>
              /\ ndyncap' = ndyncap - rem + n
              /\ dyn' = SubSeq(dyn, 1, Len(dyn) - rem) \o NewValues(s, n)
              /\ LogBegins(capture', [i \in 1..open |-> Slot(capture, i - 1)], open)
              /\ IF n = 0 THEN captop' = open
                 ELSE /\ captop' = (open + 1) + n + 1
                      /\ Slot(capture', open).siz = 0
                      /\ Slot(capture', open).s = Slot(capture, open).s
                      /\ Slot(capture', open).kind = Slot(capture, open).kind
                      /\ \A i \in 1..n :
                            Slot(capture', open + i)
                              = [kind |-> "Cruntime", siz |-> 1, s |-> s',
                                 idx |-> first + i - 1]
                      /\ isclosecap(Slot(capture', open + n + 1))
                      /\ Slot(capture', open + n + 1).siz = 1
                      /\ Slot(capture', open + n + 1).s = s'

CloseStep ==
  (status = "run" /\ opcode = "ICloseCapture" /\ captop > 0
     /\ ev'.op = "ICloseCapture") =>
     LET last == Slot(capture, captop - 1)
         d == s - last.s
     IN  /\ status' = "run"
         /\ LogBegins(capture', [i \in 1..(captop - 1) |-> Slot(capture, i - 1)],
                      captop - 1)
         /\ IF last.siz = 0 /\ 0 <= d /\ d + 1 <= UCHAR_MAX
            THEN /\ captop' = captop
                 /\ Slot(capture', captop - 1) = [last EXCEPT !.siz = d + 1]
            ELSE /\ captop' = captop + 1
                 /\ Slot(capture', captop - 1) = last
                 /\ isclosecap(Slot(capture', captop))
                 /\ Slot(capture', captop).siz = 1
                 /\ Slot(capture', captop).s = s

(* OpenCapture(simple); Char('a'); Char('b'); CloseCapture; End on "ab" *)
CapExample ==
  (prog = "cap" /\ subj = <<97, 98>> /\ start = 0 /\ status = "ok") =>
     /\ captop = 1
     /\ Slot(capture, 0) = [s |-> 0, siz |-> 3, kind |-> "Csimple", idx |-> 0]

(* C20: CloseCapture turns the last event into a full capture of size d + 1 *)
(* (same position, kind and key, captop unchanged) exactly when that event  *)
(* is an open event and d = s - open.s satisfies 0 <= d and d + 1 fits a    *)
(* byte; otherwise it appends a close event (size 1, position s).  The      *)
(* simple capture of "ab" leaves the one event (s = 0, size = 3, simple).   *)
C20_CloseCollapses == []CapExample /\ [][CloseStep]_vars

(***************************************************************************)
(* PartialCommit and the loop built with it                                *)
(***************************************************************************)

PartialCommitStep ==
  (status = "run" /\ opcode = "IPartialCommit" /\ ev'.op = "IPartialCommit") =>
     /\ Len(stack') = Len(stack)
     /\ Pop(stack') = Pop(stack)
     /\ Top(stack').s = s /\ Top(stack').caplevel = captop
     /\ Top(stack').p = Top(stack).p /\ Top(stack').X = Top(stack).X
     /\ s' = s /\ captop' = captop /\ p' = p + getoffset

(* a fail that stops at a frame IPartialCommit has rewritten resumes at the *)
(* frame's alternative with the cursor and captop of the last rewrite       *)
FailAfterPartialCommit ==
  LET st == FailStack
      sv == SavedFrames(st)
  IN  (status = "run" /\ ev'.br = "fail" /\ sv # {} /\ st[Max(sv)].X = NULLP
         /\ st[Max(sv)].gu) =>
        /\ p' = st[Max(sv)].p
        /\ s' = st[Max(sv)].ps
        /\ captop' = st[Max(sv)].pc

(* number of bytes 'x' of the subject from position i on *)
RECURSIVE Xs(_)
Xs(i) == IF i < e /\ subj[i + 1] = 120 THEN 1 + Xs(i + 1) ELSE 0

(* the loops return the position after the run of 'x' at start *)
StarResult ==
  (prog \in {"star", "star2"} /\ status # "run") =>
     status = "ok" /\ s = start + Xs(start)

(* the stack of the loop holds the sentinel and one choice frame at most *)
StarDepthTwo == prog = "star" => Len(stack) <= 2

StarDepth ==
  /\ prog = "star" => Len(stack) <= 2 + (s - start)
  /\ prog = "star2" => Len(stack) <= 2

EightNinths(x) == 8 * (x \div 9) + (8 * (x % 9)) \div 9

(* a call of growcap and its return *)
GrowStep ==
  (ev.br = "call" /\ ev'.br # "call") =>
    LET ct == ev.arg.ct
        n == ev.arg.n
    IN  IF capsize - ct > n
        THEN status' = "run" /\ UNCHANGED <<capture, capsize>>
        ELSE IF ct > INT_MAX - n - 1 \/ ct + n + 1 >= EightNinths(MAXNEWSIZE)
        THEN status' = "error"
        ELSE LET needed == ct + n + 1
             IN  /\ status' = "run"
                 /\ capsize' = IF needed < MAXNEWSIZE \div 2 THEN 2 * needed
                               ELSE needed + needed \div 8
                 /\ capsize' <= MAXNEWSIZE
                 /\ capsize' - ct > n
                 /\ capture # << >> =>
                      /\ Len(capture') = capsize'
                      /\ \A i \in 1..ct :
                           i <= Len(capture) /\ capture'[i] = capture[i]

(* C22: growcap reallocates when capsize - captop does not exceed the extra *)
(* entries asked for; with needed = captop + extra + 1 the new capacity is  *)
(* 2*needed if needed < MAX/2, needed + needed/8 if needed < 8*MAX/9, and   *)
(* otherwise the match ends with "too many captures"; the capacity does not *)
(* overflow an int nor exceed MAX, the first captop entries of the old      *)
(* array are the first captop entries of the new one, and after growth      *)
(* capsize - captop > extra                                                 *)
C22_GrowCap == [][GrowStep]_vars

(***************************************************************************)
(* UTFRange                                                                *)
(***************************************************************************)

(* UTF-8 as the standard lays it out: the length a first byte announces,    *)
(* the code point of a sequence of that length and the least code point     *)
(* that needs that length                                                   *)
SeqLen(b) ==
  IF b < 128 THEN 1
  ELSE IF 192 <= b /\ b < 224 THEN 2
  ELSE IF 224 <= b /\ b < 240 THEN 3
  ELSE IF 240 <= b /\ b < 248 THEN 4
  ELSE 0

IsCont(b) == 128 <= b /\ b < 192

CodePoint(i, k) ==
  CASE k = 1 -> subj[i + 1]
    [] k = 2 -> (subj[i + 1] % 32) * 64 + (subj[i + 2] % 64)
    [] k = 3 -> (subj[i + 1] % 16) * 4096 + (subj[i + 2] % 64) * 64
                  + (subj[i + 3] % 64)
    [] k = 4 -> (subj[i + 1] % 8) * 262144 + (subj[i + 2] % 64) * 4096
                  + (subj[i + 3] % 64) * 64 + (subj[i + 4] % 64)

LeastOfLen(k) ==
  CASE k = 1 -> 0 [] k = 2 -> 128 [] k = 3 -> 2048 [] k = 4 -> 65536

(* a complete well-formed sequence lies within [i, e) *)
WellFormedAt(i) ==
  /\ 0 <= i /\ i < e
  /\ LET k == SeqLen(subj[i + 1])
     IN  /\ k > 0
         /\ i + k <= e
         /\ \A j \in 2..k : IsCont(subj[i + j])
         /\ CodePoint(i, k) >= LeastOfLen(k)
         /\ CodePoint(i, k) <= 1114111

UTFRStep ==
  (status = "run" /\ opcode = "IUTFR") =>
    LET k == SeqLen(subj[s + 1])
        sv == SavedFrames(stack)
    IN  /\ ev'.op = "IUTFR"
        /\ status' = "run"
        /\ IF WellFormedAt(s) /\ inst.offset <= CodePoint(s, k)
                /\ CodePoint(s, k) <= utf_to(inst)
           THEN /\ ev'.br = "ok"
                /\ s' = s + k /\ p' = p + 2
                /\ UNCHANGED <<stack, captop>>
           ELSE /\ ev'.br = "fail"
                /\ sv # {}
                /\ stack' = SubSeq(stack, 1, Max(sv) - 1)
                /\ s' = stack[Max(sv)].s
                /\ p' = stack[Max(sv)].p
                /\ captop' = stack[Max(sv)].caplevel

(* C23: UTFRange(lo, hi) never ends the match with an error: it goes on     *)
(* with s after the sequence exactly when a complete well-formed UTF-8      *)
(* sequence (at most 4 bytes, not overlong, code point <= 0x10FFFF) lies    *)
(* within [s, e) and its code point is in [lo, hi]; otherwise it is a fail  *)
(* that pops the stack down to the topmost frame with a saved cursor and    *)
(* resumes at that frame's p with its s and caplevel                        *)
C23_UTFRange == [][UTFRStep]_vars

(* U+100000 in four bytes is matched by utf8.R(0x42, 0x10FFFF) *)
C23_Witness ==
  /\ prog = "utf" /\ subj = <<244, 128, 128, 128>> /\ start = 0
  /\ ev.op = "IUTFR" /\ ev.br = "ok" /\ s = 4 /\ status = "run"

(***************************************************************************)
(* The capture-side stack and the memo table against the backtrack stack   *)
(***************************************************************************)

LiveLR == Cardinality(LRFrames(stack))

(* C24: at every instruction boundary the capture-side stack holds one level *)
(* more than there are left-recursive frames on the backtrack stack and the  *)
(* memo table holds as many entries as there are such frames; when match     *)
(* ends, at End or at Giveup, the capture-side stack is at its base level    *)
(* and the memo table is empty                                               *)
C24_LevelsFollowFrames ==
  /\ status = "run" =>
       /\ Len(capstack) = 1 + LiveLR
       /\ Cardinality(DOMAIN lambda) = LiveLR
  /\ status \in {"ok", "fail"} =>
       /\ Len(capstack) = 1
       /\ DOMAIN lambda = {}

(* "1+1+1" under E <- E:1 '+' E:2 / '1': two invocations of E are live,     *)
(* with a level and a memo entry each                                        *)
C24_Witness ==
  /\ prog = "lrp" /\ subj = <<49, 43, 49, 43, 49>> /\ start = 0
  /\ status = "run" /\ LiveLR = 2
  /\ Len(capstack) = 3 /\ Cardinality(DOMAIN lambda) = 2

====
